---- MODULE Spec2Model ----
(***************************************************************************)
(* Message batching / debounce scheduler of message_memory.                *)
(*                                                                         *)
(* workers/batching.py  add_message_to_batch, process_and_forward_batch    *)
(* workers/n8n_forwarder.py  forward_to_n8n, safe_forward_to_n8n           *)
(* workers/jobs.py  process_whatsapp_message (the decisions that lead to   *)
(*                  add_message_to_batch)                                  *)
(*                                                                         *)
(* Every Redis command and every RQ call is one atomic step; a worker may  *)
(* be pre-empted between any two of them.  Each add_message_to_batch call  *)
(* is a process (index i), and the RQ job it enqueues has the same index.  *)
(***************************************************************************)
EXTENDS Integers, Sequences, FiniteSets, TLC

\* ---------------------------------------------------------------- bounds
MaxCalls == 2

\* ------------------------------------------------------------- constants
StopAfterAttempt == 2
mock_max_file_size_mb == 50

None == "None"      \* an absent user id (Python None)
NoCount == <<>>     \* an absent counter key
NoJob == 0          \* an absent job id key
Convs == {"c1", "c2"}
UserArgs == {None, "", "u1", "u2"}
Calls == 1..MaxCalls

VARIABLES
    kvCount,          \* n8n_count:<chat_id>   NoCount or the decimal digits
    kvUser,           \* n8n_user:<chat_id>    None or a user id
    kvJob,            \* n8n_job:<chat_id>     NoJob or a job id
    apc,              \* position of each add_message_to_batch call
    chat_id,          \* argument of call i, and of the job it enqueues
    user_id,          \* argument of call i
    existing_job_id,  \* local of call i
    status,           \* RQ status of job i
    fpc,              \* position of job i inside process_and_forward_batch
    message_count,    \* local of job i
    f_user_id,        \* local of job i
    http,             \* outcomes of the httpx.post attempts made by job i
    sf,               \* how safe_forward_to_n8n ended for job i
    result,           \* how process_and_forward_batch ended for job i
    forwarded,        \* payloads job i handed to safe_forward_to_n8n
    add_exc,          \* positions at which a command of call i raised
    flush_exc,        \* the exception job i caught at line 138, or "none"
    overlapped,       \* history: two calls on the conversation overlapped
    addDuring,        \* history: a call was mid-execution while job i ran
    flushDuring,      \* history: another job of the conversation ran meanwhile
    startKV,          \* history: <<count, user>> stored when job i started
    startJob,         \* history: the job id stored when job i started
    stale,            \* history: job i was waiting when a later call returned
    last_enqueued,    \* history: the job enqueued last for the conversation
    flushed_after,    \* history: a flush of the conversation started after
                      \*          call i's increment
    ppc,              \* position of each process_whatsapp_message run
    message_data,     \* argument of run p: from_me, type, file_size
    p_user_id,        \* local user_id of run p
    subscription_status,  \* local of run p
    is_pilot,         \* local of run p
    skip_n8n_batch,   \* local of run p
    media_url,        \* local of run p: TRUE when a media url was obtained
    notified,         \* outcome of the notice (rejection or size) run p sent
    p_call,           \* the add_message_to_batch call run p made, 0 if none
    p_exc,            \* where the exception that run p re-raised came from
    error_job,        \* run p called create_processing_job
    inserted          \* insert_message has returned for the message of run p

vars == <<kvCount, kvUser, kvJob, apc, chat_id, user_id, existing_job_id,
          status, fpc, message_count, f_user_id, http, sf, result, forwarded,
          add_exc, flush_exc,
          overlapped, addDuring, flushDuring, startKV, startJob, stale,
          last_enqueued, flushed_after,
          ppc, message_data, p_user_id, subscription_status, is_pilot,
          skip_n8n_batch, media_url, notified, p_call, p_exc, error_job,
          inserted>>

kv == <<kvCount, kvUser, kvJob>>
addLocals == <<apc, chat_id, user_id, existing_job_id, add_exc>>
flushLocals == <<fpc, message_count, f_user_id, http, sf, result, forwarded,
                 flush_exc>>
history == <<overlapped, addDuring, flushDuring, startKV, startJob, stale,
            last_enqueued, flushed_after>>
pipe == <<ppc, message_data, p_user_id, subscription_status, is_pilot,
          skip_n8n_batch, media_url, notified, p_call, p_exc, error_job,
          inserted>>

\* ------------------------------------------------------- value encodings
\* Redis stores the counter as its decimal text; int(x.decode()) parses it.
RECURSIVE IntToDigits(_)
IntToDigits(n) ==
    IF n < 10 THEN <<n>> ELSE Append(IntToDigits(n \div 10), n % 10)

RECURSIVE DigitsToInt(_)
DigitsToInt(d) ==
    IF Len(d) = 0 THEN 0
    ELSE 10 * DigitsToInt(SubSeq(d, 1, Len(d) - 1)) + d[Len(d)]

\* Python truthiness of an Optional[str] / Optional[bytes]
Truthy(v) == v # None /\ v # ""

\* ---------------------------------------------------------- Redis commands
RedisIncrSetsOne(store, key) ==
    [store EXCEPT ![key] = IntToDigits(1)]

RedisIncr(store, key) ==
    [store EXCEPT ![key] =
        IF store[key] = NoCount THEN IntToDigits(1)
        ELSE IntToDigits(DigitsToInt(store[key]) + 1)]

RedisSet(store, key, value) == [store EXCEPT ![key] = value]

RedisDeleteNoop(store, key, absent) == store

RedisDeleteEveryKey(store, key, absent) == [k \in DOMAIN store |-> absent]

RedisDelete(store, key, absent) == [store EXCEPT ![key] = absent]

\* ------------------------------------------------------------------ Init
Init ==
    /\ kvCount = [c \in Convs |-> NoCount]
    /\ kvUser = [c \in Convs |-> None]
    /\ kvJob = [c \in Convs |-> NoJob]
    /\ apc = [i \in Calls |-> "idle"]
    /\ chat_id = [i \in Calls |-> None]
    /\ user_id = [i \in Calls |-> None]
    /\ existing_job_id = [i \in Calls |-> NoJob]
    /\ status = [i \in Calls |-> "none"]
    /\ fpc = [i \in Calls |-> "-"]
    /\ message_count = [i \in Calls |-> 0]
    /\ f_user_id = [i \in Calls |-> None]
    /\ http = [i \in Calls |-> <<>>]
    /\ sf = [i \in Calls |-> "none"]
    /\ result = [i \in Calls |-> "none"]
    /\ forwarded = [i \in Calls |-> <<>>]
    /\ add_exc = [i \in Calls |-> <<>>]
    /\ flush_exc = [i \in Calls |-> "none"]
    /\ overlapped = [c \in Convs |-> FALSE]
    /\ addDuring = [i \in Calls |-> FALSE]
    /\ flushDuring = [i \in Calls |-> FALSE]
    /\ startKV = [i \in Calls |-> <<NoCount, None>>]
    /\ startJob = [i \in Calls |-> NoJob]
    /\ stale = [i \in Calls |-> FALSE]
    /\ last_enqueued = [c \in Convs |-> NoJob]
    /\ flushed_after = [i \in Calls |-> FALSE]
    /\ ppc = [p \in Calls |-> "idle"]
    /\ message_data = [p \in Calls |->
            [from_me |-> FALSE, type |-> "text", file_size |-> 0]]
    /\ p_user_id = [p \in Calls |-> None]
    /\ subscription_status = [p \in Calls |-> None]
    /\ is_pilot = [p \in Calls |-> FALSE]
    /\ skip_n8n_batch = [p \in Calls |-> FALSE]
    /\ media_url = [p \in Calls |-> FALSE]
    /\ notified = [p \in Calls |-> "none"]
    /\ p_call = [p \in Calls |-> 0]
    /\ p_exc = [p \in Calls |-> "none"]
    /\ error_job = [p \in Calls |-> FALSE]
    /\ inserted = [p \in Calls |-> FALSE]

\* ------------------------------------------------------------- helpers
InAdd(i) == apc[i] \notin {"idle", "done", "raised"}
Running(i) == status[i] = "started"
Pending(i) == status[i] \in {"scheduled", "queued"}


\* --------------------------------------------------- add_message_to_batch
\* line 50: redis_conn.incr(count_key).  The call is entered here; what
\* becomes of the caller's variables is stated by the caller.
AddIncr(i, c, u) ==
    /\ apc[i] = "idle"
    /\ IF i = 1 THEN TRUE ELSE apc[i - 1] # "idle"
    /\ kvCount' = RedisIncr(kvCount, c)
    /\ apc' = [apc EXCEPT ![i] = "set_user"]
    /\ chat_id' = [chat_id EXCEPT ![i] = c]
    /\ user_id' = [user_id EXCEPT ![i] = u]
    /\ overlapped' = [overlapped EXCEPT ![c] =
            @ \/ \E j \in Calls \ {i} : InAdd(j) /\ chat_id[j] = c]
    /\ addDuring' = [j \in Calls |->
            addDuring[j] \/ (Running(j) /\ chat_id[j] = c)]
    /\ UNCHANGED <<kvUser, kvJob, existing_job_id, add_exc, status,
                   flushLocals, flushDuring, startKV, startJob, stale,
                   last_enqueued, flushed_after>>

\* lines 54-55: if user_id: redis_conn.set(user_id_key, user_id)
StoreUserAlways(old, u) == u

StoreUser(old, u) == IF Truthy(u) THEN u ELSE old

AddSetUser(i) ==
    /\ apc[i] = "set_user"
    /\ kvUser' = RedisSet(kvUser, chat_id[i],
                          StoreUser(kvUser[chat_id[i]], user_id[i]))
    /\ apc' = [apc EXCEPT ![i] = "get_job"]
    /\ UNCHANGED <<kvCount, kvJob, chat_id, user_id, add_exc, existing_job_id, status,
                   flushLocals, history,
                   pipe>>

\* lines 58-59: existing_job_id = redis_conn.get(job_id_key)
AddGetJob(i) ==
    /\ apc[i] = "get_job"
    /\ existing_job_id' = [existing_job_id EXCEPT ![i] = kvJob[chat_id[i]]]
    /\ apc' = [apc EXCEPT ![i] =
            IF kvJob[chat_id[i]] # NoJob THEN "fetch" ELSE "enqueue"]
    /\ UNCHANGED <<kv, chat_id, user_id, add_exc, status, flushLocals, history,
                   pipe>>

\* line 62: existing_job.get_status() in ['queued', 'scheduled']
CancellableAnyStatus(st) == st # "none"

CancellableOnlyQueued(st) == st = "queued"

Cancellable(st) == st \in {"queued", "scheduled"}

\* lines 61-62: Job.fetch(...) and the status test
AddFetch(i) ==
    /\ apc[i] = "fetch"
    /\ apc' = [apc EXCEPT ![i] =
            IF Cancellable(status[existing_job_id[i]])
            THEN "cancel" ELSE "enqueue"]
    /\ UNCHANGED <<kv, chat_id, user_id, add_exc, existing_job_id, status,
                   flushLocals, history,
                   pipe>>

\* line 63: existing_job.cancel().  A job that is still waiting is removed
\* and never runs; a job that a worker has already taken keeps running; a
\* job that is already canceled makes cancel() raise, which line 65 absorbs.
CancelEffectNoop(st) == st

CancelEffect(st) == IF st \in {"queued", "scheduled"} THEN "canceled" ELSE st

AddCancel(i) ==
    /\ apc[i] = "cancel"
    /\ status' = [status EXCEPT ![existing_job_id[i]] = CancelEffect(@)]
    /\ apc' = [apc EXCEPT ![i] = "enqueue"]
    /\ UNCHANGED <<kv, chat_id, user_id, add_exc, existing_job_id, flushLocals,
                   history,
                   pipe>>

\* lines 69-75: queue.enqueue_in(timedelta(seconds=60), process_and_forward_batch, chat_id)
AddEnqueue(i) ==
    /\ apc[i] = "enqueue"
    /\ status' = [status EXCEPT ![i] = "scheduled"]
    /\ apc' = [apc EXCEPT ![i] = "set_job"]
    /\ last_enqueued' = [last_enqueued EXCEPT ![chat_id[i]] = i]
    /\ UNCHANGED <<kv, chat_id, user_id, add_exc, existing_job_id, flushLocals,
                   overlapped, addDuring, flushDuring, startKV, startJob,
                   stale, flushed_after,
                   pipe>>

\* line 78: redis_conn.set(job_id_key, job.id); the call returns
AddSetJob(i) ==
    /\ apc[i] = "set_job"
    /\ kvJob' = RedisSet(kvJob, chat_id[i], i)
    /\ apc' = [apc EXCEPT ![i] = "done"]
    /\ stale' = [j \in Calls |->
            stale[j] \/ (/\ j # i /\ chat_id[j] = chat_id[i]
                         /\ apc[j] = "done" /\ Pending(j))]
    /\ UNCHANGED <<kvCount, kvUser, chat_id, user_id, add_exc, existing_job_id,
                   status, flushLocals, overlapped, addDuring, flushDuring,
                   startKV, startJob, last_enqueued, flushed_after,
                   pipe>>

\* ------------------------------------------------------------ RQ scheduler
\* The delay of a scheduled job elapses: the scheduler moves it to the queue.
JobDueNever(i) == FALSE /\ UNCHANGED vars

JobDue(i) ==
    /\ status[i] = "scheduled"
    /\ status' = [status EXCEPT ![i] = "queued"]
    /\ UNCHANGED <<kv, addLocals, flushLocals, history,
                   pipe>>

\* A worker takes the queued job and enters process_and_forward_batch.
JobStart(i) ==
    /\ status[i] = "queued"
    /\ status' = [status EXCEPT ![i] = "started"]
    /\ fpc' = [fpc EXCEPT ![i] = "get_count"]
    /\ addDuring' = [addDuring EXCEPT ![i] =
            \E j \in Calls : InAdd(j) /\ chat_id[j] = chat_id[i]]
    /\ flushDuring' = [j \in Calls |->
            IF j = i
            THEN \E k \in Calls \ {i} : Running(k) /\ chat_id[k] = chat_id[i]
            ELSE flushDuring[j] \/ (Running(j) /\ chat_id[j] = chat_id[i])]
    /\ startKV' = [startKV EXCEPT ![i] =
            <<kvCount[chat_id[i]], kvUser[chat_id[i]]>>]
    /\ startJob' = [startJob EXCEPT ![i] = kvJob[chat_id[i]]]
    /\ flushed_after' = [j \in Calls |->
            flushed_after[j] \/ (chat_id[j] = chat_id[i] /\ apc[j] # "idle")]
    /\ UNCHANGED <<kv, addLocals, message_count, f_user_id, flush_exc, http, sf, result,
                   forwarded, overlapped, stale, last_enqueued,
                   pipe>>

\* ---------------------------------------------- process_and_forward_batch
\* lines 138-141: except Exception: log, do not re-raise
FlushExceptReraises(exc) == "raised"

FlushExcept(exc) == "returned"

\* lines 105-108: the position after the read of the counter
AfterGetCountAlwaysClears(mc) == IF mc = NoCount THEN "del_count" ELSE "get_user"

AfterGetCount(mc) == IF mc = NoCount THEN "return" ELSE "get_user"

\* lines 105-110: message_count = redis_conn.get(count_key); return if absent
FlushGetCount(i) ==
    /\ Running(i) /\ fpc[i] = "get_count"
    /\ LET mc == kvCount[chat_id[i]]
           next == AfterGetCount(mc)
       IN  IF next = "return"
           THEN /\ fpc' = [fpc EXCEPT ![i] = "done"]
                /\ result' = [result EXCEPT ![i] = "returned"]
                /\ status' = [status EXCEPT ![i] = "finished"]
                /\ UNCHANGED message_count
           ELSE /\ fpc' = [fpc EXCEPT ![i] = next]
                /\ message_count' = [message_count EXCEPT ![i] = DigitsToInt(mc)]
                /\ UNCHANGED <<result, status>>
    /\ UNCHANGED <<kv, addLocals, f_user_id, flush_exc, http, sf, forwarded, history,
                   pipe>>

\* lines 113-114: user_id = redis_conn.get(user_id_key)
FlushGetUser(i) ==
    /\ Running(i) /\ fpc[i] = "get_user"
    /\ f_user_id' = [f_user_id EXCEPT ![i] =
            IF Truthy(kvUser[chat_id[i]]) THEN kvUser[chat_id[i]] ELSE None]
    /\ fpc' = [fpc EXCEPT ![i] = "forward"]
    /\ UNCHANGED <<kv, addLocals, status, message_count, flush_exc, http, sf, result,
                   forwarded, history,
                   pipe>>

\* lines 122-125: the payload
PayloadOffByOne(u, n) == [user_id |-> u, batched_message_count |-> n - 1]

Payload(u, n) == [user_id |-> u, batched_message_count |-> n]

\* -------------------------------------------------------- n8n_forwarder.py
\* line 12: stop=stop_after_attempt(2)
TenacityStopOneLater(attempt_number) == attempt_number >= StopAfterAttempt + 1

TenacityStop(attempt_number) == attempt_number >= StopAfterAttempt

\* lines 11-15, 47-52: what forward_to_n8n does after an attempt: a 2xx
\* answer returns True, a raising attempt is retried until the stop
\* condition, and then RetryError is raised (reraise=False).
ForwardAfter(outcomes) ==
    IF outcomes[Len(outcomes)] THEN "True"
    ELSE IF TenacityStop(Len(outcomes)) THEN "RetryError"
    ELSE "retry"

\* lines 65-77: safe_forward_to_n8n catches every Exception
SafeForwardReraises(r) == IF r = "True" THEN "returned" ELSE "raised"

SafeForward(r) == "returned"

\* One httpx.post attempt of job i (lines 29-39) and what follows it up to
\* the next Redis command of process_and_forward_batch.
Attempt(i, ok) ==
    LET outcomes == Append(http[i], ok)
        r == ForwardAfter(outcomes)
    IN  /\ http' = [http EXCEPT ![i] = outcomes]
        /\ IF r = "retry"
           THEN /\ fpc' = [fpc EXCEPT ![i] = "retry"]
                /\ UNCHANGED <<sf, result, status, flush_exc>>
           ELSE /\ sf' = [sf EXCEPT ![i] = SafeForward(r)]
                /\ IF SafeForward(r) = "returned"
                   THEN /\ fpc' = [fpc EXCEPT ![i] = "del_count"]
                        /\ UNCHANGED <<result, status, flush_exc>>
                   ELSE /\ fpc' = [fpc EXCEPT ![i] = "done"]
                        /\ flush_exc' = [flush_exc EXCEPT ![i] = r]
                        /\ result' = [result EXCEPT ![i] = FlushExcept(r)]
                        /\ status' = [status EXCEPT ![i] =
                               IF FlushExcept(r) = "returned"
                               THEN "finished" ELSE "failed"]

\* batching.py line 129: safe_forward_to_n8n(payload), first attempt
FlushForward(i) ==
    /\ Running(i) /\ fpc[i] = "forward"
    /\ forwarded' = [forwarded EXCEPT ![i] =
            Append(@, Payload(f_user_id[i], message_count[i]))]
    /\ \E ok \in BOOLEAN : Attempt(i, ok)
    /\ UNCHANGED <<kv, addLocals, message_count, f_user_id, history,
                   pipe>>

\* the attempt tenacity makes after a raising one
FlushRetry(i) ==
    /\ Running(i) /\ fpc[i] = "retry"
    /\ \E ok \in BOOLEAN : Attempt(i, ok)
    /\ UNCHANGED <<kv, addLocals, message_count, f_user_id, forwarded,
                   history,
                   pipe>>

\* batching.py line 132: redis_conn.delete(count_key)
FlushDelCount(i) ==
    /\ Running(i) /\ fpc[i] = "del_count"
    /\ kvCount' = RedisDelete(kvCount, chat_id[i], NoCount)
    /\ fpc' = [fpc EXCEPT ![i] = "del_user"]
    /\ UNCHANGED <<kvUser, kvJob, addLocals, status, message_count,
                   f_user_id, flush_exc, http, sf, result, forwarded, history,
                   pipe>>

\* line 133: redis_conn.delete(user_id_key)
FlushDelUser(i) ==
    /\ Running(i) /\ fpc[i] = "del_user"
    /\ kvUser' = RedisDelete(kvUser, chat_id[i], None)
    /\ fpc' = [fpc EXCEPT ![i] = "del_job"]
    /\ UNCHANGED <<kvCount, kvJob, addLocals, status, message_count,
                   f_user_id, flush_exc, http, sf, result, forwarded, history,
                   pipe>>

\* lines 134-136: redis_conn.delete(job_id_key); the job returns
FlushDelJob(i) ==
    /\ Running(i) /\ fpc[i] = "del_job"
    /\ kvJob' = RedisDelete(kvJob, chat_id[i], NoJob)
    /\ fpc' = [fpc EXCEPT ![i] = "done"]
    /\ result' = [result EXCEPT ![i] = "returned"]
    /\ status' = [status EXCEPT ![i] = "finished"]
    /\ UNCHANGED <<kvCount, kvUser, addLocals, message_count, f_user_id, flush_exc,
                   http, sf, forwarded, history,
                   pipe>>

\* ------------------------------------------------------------------- Next
Next ==
    \/ \E i \in Calls, c \in Convs, u \in UserArgs :
          AddIncr(i, c, u) /\ UNCHANGED pipe
    \/ \E i \in Calls : AddSetUser(i)
    \/ \E i \in Calls : AddGetJob(i)
    \/ \E i \in Calls : AddFetch(i)
    \/ \E i \in Calls : AddCancel(i)
    \/ \E i \in Calls : AddEnqueue(i)
    \/ \E i \in Calls : AddSetJob(i)
    \/ \E i \in Calls : JobDue(i)
    \/ \E i \in Calls : JobStart(i)
    \/ \E i \in Calls : FlushGetCount(i)
    \/ \E i \in Calls : FlushGetUser(i)
    \/ \E i \in Calls : FlushForward(i)
    \/ \E i \in Calls : FlushRetry(i)
    \/ \E i \in Calls : FlushDelCount(i)
    \/ \E i \in Calls : FlushDelUser(i)
    \/ \E i \in Calls : FlushDelJob(i)

Spec == Init /\ [][Next]_vars

\* ------------------------------------------------------- fair scheduling
\* One conversation, with and without a user id.
LiveConvs == {"c1"}
LiveUserArgs == {None, "u1"}

\* a call that has been entered executes its next command (lines 53-78)
CallStep(i) ==
    \/ AddSetUser(i) \/ AddGetJob(i) \/ AddFetch(i)
    \/ AddCancel(i) \/ AddEnqueue(i) \/ AddSetJob(i)

\* the RQ scheduler moves a due job to the queue, a worker takes it and
\* process_and_forward_batch executes its next command (lines 103-136)
JobStep(i) ==
    \/ JobDue(i) \/ JobStart(i)
    \/ FlushGetCount(i) \/ FlushGetUser(i) \/ FlushForward(i) \/ FlushRetry(i)
    \/ FlushDelCount(i) \/ FlushDelUser(i) \/ FlushDelJob(i)

NextLive ==
    \/ \E i \in Calls, c \in LiveConvs, u \in LiveUserArgs :
          AddIncr(i, c, u) /\ UNCHANGED pipe
    \/ \E i \in Calls : AddSetUser(i)
    \/ \E i \in Calls : AddGetJob(i)
    \/ \E i \in Calls : AddFetch(i)
    \/ \E i \in Calls : AddCancel(i)
    \/ \E i \in Calls : AddEnqueue(i)
    \/ \E i \in Calls : AddSetJob(i)
    \/ \E i \in Calls : JobDue(i)
    \/ \E i \in Calls : JobStart(i)
    \/ \E i \in Calls : FlushGetCount(i)
    \/ \E i \in Calls : FlushGetUser(i)
    \/ \E i \in Calls : FlushForward(i)
    \/ \E i \in Calls : FlushRetry(i)
    \/ \E i \in Calls : FlushDelCount(i)
    \/ \E i \in Calls : FlushDelUser(i)
    \/ \E i \in Calls : FlushDelJob(i)

\* Calls arrive when the caller makes them (no fairness); a call that was
\* entered runs on, and the scheduler and the worker keep running.
Fairness ==
    \A i \in Calls : WF_vars(CallStep(i)) /\ WF_vars(JobStep(i))

SpecLive == Init /\ [][NextLive]_vars /\ Fairness

\* ---------------------------------------- store and scheduler failures
\* add_message_to_batch, lines 65-66 and 84-86: where the call continues
\* after the command at position pc raised.  Job.fetch, get_status and
\* cancel sit in the inner try, whose handler logs a warning and falls
\* through to enqueue_in; every other command is covered by the outer
\* handler only, which logs and re-raises.
AddExceptAlwaysReraises(pc) == "raised"

AddExcept(pc) == IF pc \in {"fetch", "cancel"} THEN "enqueue" ELSE "raised"

\* line 50: redis_conn.incr raises; the call ends before it changed a key
AddIncrFail(i, c, u) ==
    /\ apc[i] = "idle"
    /\ IF i = 1 THEN TRUE ELSE apc[i - 1] # "idle"
    /\ chat_id' = [chat_id EXCEPT ![i] = c]
    /\ user_id' = [user_id EXCEPT ![i] = u]
    /\ add_exc' = [add_exc EXCEPT ![i] = Append(@, "incr")]
    /\ apc' = [apc EXCEPT ![i] = AddExcept("incr")]
    /\ UNCHANGED <<kv, existing_job_id, status, flushLocals, history>>

\* lines 55-78: the Redis or RQ command call i is about to issue raises and
\* has no effect
AddFail(i) ==
    /\ apc[i] \in {"set_user", "get_job", "fetch", "cancel", "enqueue", "set_job"}
    /\ apc[i] = "set_user" => Truthy(user_id[i])
    /\ add_exc' = [add_exc EXCEPT ![i] = Append(@, apc[i])]
    /\ apc' = [apc EXCEPT ![i] = AddExcept(apc[i])]
    /\ UNCHANGED <<kv, chat_id, user_id, existing_job_id, status, flushLocals,
                   history,
                   pipe>>

\* process_and_forward_batch, lines 105-134: the Redis command job i is
\* about to issue raises and has no effect; lines 138-141 handle it
FlushFail(i) ==
    /\ Running(i)
    /\ fpc[i] \in {"get_count", "get_user", "del_count", "del_user", "del_job"}
    /\ flush_exc' = [flush_exc EXCEPT ![i] = "RedisError"]
    /\ fpc' = [fpc EXCEPT ![i] = "done"]
    /\ result' = [result EXCEPT ![i] = FlushExcept("RedisError")]
    /\ status' = [status EXCEPT ![i] =
            IF FlushExcept("RedisError") = "returned"
            THEN "finished" ELSE "failed"]
    /\ UNCHANGED <<kv, addLocals, message_count, f_user_id, http, sf,
                   forwarded, history,
                   pipe>>

\* the arguments of the calls made under failures: one conversation, with
\* and without a user id
FaultConvs == {"c1"}
FaultUserArgs == {None, "u1"}

NextFault ==
    \/ \E i \in Calls, c \in FaultConvs, u \in FaultUserArgs :
          AddIncr(i, c, u) /\ UNCHANGED pipe
    \/ \E i \in Calls : AddSetUser(i)
    \/ \E i \in Calls : AddGetJob(i)
    \/ \E i \in Calls : AddFetch(i)
    \/ \E i \in Calls : AddCancel(i)
    \/ \E i \in Calls : AddEnqueue(i)
    \/ \E i \in Calls : AddSetJob(i)
    \/ \E i \in Calls : JobDue(i)
    \/ \E i \in Calls : JobStart(i)
    \/ \E i \in Calls : FlushGetCount(i)
    \/ \E i \in Calls : FlushGetUser(i)
    \/ \E i \in Calls : FlushForward(i)
    \/ \E i \in Calls : FlushRetry(i)
    \/ \E i \in Calls : FlushDelCount(i)
    \/ \E i \in Calls : FlushDelUser(i)
    \/ \E i \in Calls : FlushDelJob(i)
    \/ \E i \in Calls, c \in FaultConvs, u \in FaultUserArgs :
          AddIncrFail(i, c, u) /\ UNCHANGED pipe
    \/ \E i \in Calls : AddFail(i)
    \/ \E i \in Calls : FlushFail(i)

SpecFault == Init /\ [][NextFault]_vars

\* ------------------------------------------ jobs.py process_whatsapp_message
\* Run p of the pipeline handles one webhook message.  Only what decides
\* whether and how add_message_to_batch is called is kept: the lookups, the
\* insert, the size check of a media message, the update, the hand-off and
\* the error job.  Presence, scraping, transcription and the persona flow
\* sit in try/except blocks that swallow their exceptions and touch none of
\* these variables.
batch == <<kv, addLocals, status, flushLocals, history>>

PipeConv == "c1"
NoSetting == -1     \* reading an attribute the settings object lacks

\* line 285: settings.max_file_size_mb.  utils/config.py Settings declares
\* no such field, so the read raises AttributeError; the tests replace
\* settings by a mock that has it (tests/conftest.py line 144).
MaxFileSizeMb == {NoSetting, mock_max_file_size_mb}

\* line 285: max_size_bytes = settings.max_file_size_mb * 1024 * 1024
max_size_bytes(mb) == mb * 1024 * 1024

MediaTypes == {"voice", "image", "video", "document", "audio"}

\* the webhook messages handled: agent and user, text and image, an image
\* of size 0, one exactly at the mocked limit and one a byte above it
Messages ==
    {[from_me |-> fm, type |-> "text", file_size |-> 0] : fm \in BOOLEAN}
    \cup {[from_me |-> fm, type |-> "image", file_size |-> fs] :
             fm \in BOOLEAN,
             fs \in {0, max_size_bytes(mock_max_file_size_mb),
                     max_size_bytes(mock_max_file_size_mb) + 1}}

\* lines 389-391: except Exception: log and raise; the run is over
PipeRaise(p, at) ==
    /\ ppc' = [ppc EXCEPT ![p] = "done"]
    /\ p_exc' = [p_exc EXCEPT ![p] = at]

\* lines 54-67: the run reads the message
PipeStart(p, m) ==
    /\ ppc[p] = "idle"
    /\ IF p = 1 THEN TRUE ELSE ppc[p - 1] # "idle"
    /\ message_data' = [message_data EXCEPT ![p] = m]
    /\ ppc' = [ppc EXCEPT ![p] = "lookup"]
    /\ UNCHANGED <<batch, p_user_id, subscription_status, is_pilot,
                   skip_n8n_batch, media_url, notified, p_call, p_exc,
                   error_job, inserted>>

\* line 81: if user_id is None and not from_me
RejectedNever(u, fm) == FALSE

Rejected(u, fm) == u = None /\ ~fm

\* lines 78-95: user_id = get_user_id_by_phone(customer_phone), which
\* returns an id, returns None, or raises (database.py lines 20-52)
PipeLookup(p) ==
    /\ ppc[p] = "lookup"
    /\ \/ /\ PipeRaise(p, "lookup")
          /\ UNCHANGED p_user_id
       \/ \E u \in {None, "u1"} :
            /\ p_user_id' = [p_user_id EXCEPT ![p] = u]
            /\ ppc' = [ppc EXCEPT ![p] =
                    IF Rejected(u, message_data[p].from_me) THEN "reject"
                    ELSE IF u = None /\ message_data[p].from_me THEN "done"
                    ELSE "subscription"]
            /\ UNCHANGED p_exc
    /\ UNCHANGED <<batch, message_data, subscription_status, is_pilot,
                   skip_n8n_batch, media_url, notified, p_call, error_job, inserted>>

\* lines 83-89: try: send_whatsapp_message(...) except Exception: log
RejectExceptPropagates(outcome) ==
    IF outcome = "raised" THEN "raise" ELSE "done"

RejectExcept(outcome) == "done"

\* lines 82-90: the "number is not known" message is sent inside try/except
\* and the run returns
PipeReject(p) ==
    /\ ppc[p] = "reject"
    /\ \E outcome \in {"sent", "raised"} :
          /\ notified' = [notified EXCEPT ![p] = outcome]
          /\ IF RejectExcept(outcome) = "raise"
             THEN PipeRaise(p, "reject")
             ELSE /\ ppc' = [ppc EXCEPT ![p] = RejectExcept(outcome)]
                  /\ UNCHANGED p_exc
    /\ UNCHANGED <<batch, message_data, p_user_id, subscription_status,
                   is_pilot, skip_n8n_batch, media_url, p_call, error_job,
                   inserted>>

\* lines 97-105: get_subscription_status_by_phone inside try/except: pass;
\* an exception leaves subscription_status None
PipeSubscription(p) ==
    /\ ppc[p] = "subscription"
    /\ \E st \in {None, "pilot", "active"} :
          /\ subscription_status' = [subscription_status EXCEPT ![p] = st]
          /\ is_pilot' = [is_pilot EXCEPT ![p] = (st = "pilot")]
    /\ ppc' = [ppc EXCEPT ![p] = "insert"]
    /\ UNCHANGED <<batch, message_data, p_user_id, skip_n8n_batch,
                   media_url, notified, p_call, p_exc, error_job, inserted>>

\* line 156 sits in no inner try: an exception of insert_message reaches
\* the handler of lines 389-391
AfterInsertSwallows(outcome) == "process"

AfterInsert(outcome) == IF outcome = "raised" THEN "raise" ELSE "process"

\* line 156: insert_message(db_message) returns (also when the row already
\* exists, database.py lines 139-178) or raises
PipeInsert(p) ==
    /\ ppc[p] = "insert"
    /\ \E outcome \in {"returned", "raised"} :
          /\ inserted' = [inserted EXCEPT ![p] = (outcome = "returned")]
          /\ IF AfterInsert(outcome) = "raise"
             THEN PipeRaise(p, "insert")
             ELSE /\ ppc' = [ppc EXCEPT ![p] = AfterInsert(outcome)]
                  /\ UNCHANGED p_exc
    /\ UNCHANGED <<batch, message_data, p_user_id, subscription_status,
                   is_pilot, skip_n8n_batch, media_url, notified, p_call,
                   error_job>>

\* line 286: if file_size > max_size_bytes
TooLargeAtLimit(file_size, limit) == file_size >= limit

TooLarge(file_size, limit) == file_size > limit

\* lines 165-316: the content and media branch.  A text message goes on to
\* the update.  For a media message the limit is read from settings (which
\* raises when the attribute is missing); an oversized file sets
\* skip_n8n_batch and, for a user message, goes on to send the notice;
\* otherwise the media is processed and a media url is obtained or not.
PipeProcess(p) ==
    /\ ppc[p] = "process"
    /\ IF message_data[p].type \notin MediaTypes
       THEN /\ ppc' = [ppc EXCEPT ![p] = "update"]
            /\ UNCHANGED <<skip_n8n_batch, media_url, p_exc>>
       ELSE \E mb \in MaxFileSizeMb :
              IF mb = NoSetting
              THEN /\ PipeRaise(p, "settings")
                   /\ UNCHANGED <<skip_n8n_batch, media_url>>
              ELSE IF TooLarge(message_data[p].file_size, max_size_bytes(mb))
              THEN /\ skip_n8n_batch' = [skip_n8n_batch EXCEPT ![p] = TRUE]
                   /\ ppc' = [ppc EXCEPT ![p] =
                           IF message_data[p].from_me THEN "update"
                           ELSE "notify_size"]
                   /\ UNCHANGED <<media_url, p_exc>>
              ELSE /\ \E got \in BOOLEAN :
                          media_url' = [media_url EXCEPT ![p] = got]
                   /\ ppc' = [ppc EXCEPT ![p] = "update"]
                   /\ UNCHANGED <<skip_n8n_batch, p_exc>>
    /\ UNCHANGED <<batch, message_data, p_user_id, subscription_status,
                   is_pilot, notified, p_call, error_job, inserted>>

\* lines 292-294: try: send_whatsapp_message(...) except: pass
NotifyExceptPropagates(outcome) ==
    IF outcome = "raised" THEN "raise" ELSE "update"

NotifyExcept(outcome) == "update"

\* lines 291-294: the "We don't support media of this size" message
PipeNotifySize(p) ==
    /\ ppc[p] = "notify_size"
    /\ \E outcome \in {"sent", "raised"} :
          /\ notified' = [notified EXCEPT ![p] = outcome]
          /\ IF NotifyExcept(outcome) = "raise"
             THEN PipeRaise(p, "notify")
             ELSE /\ ppc' = [ppc EXCEPT ![p] = NotifyExcept(outcome)]
                  /\ UNCHANGED p_exc
    /\ UNCHANGED <<batch, message_data, p_user_id, subscription_status,
                   is_pilot, skip_n8n_batch, media_url, p_call, error_job, inserted>>

\* lines 325-328: update_message_content is called when the content, the
\* media url or the extracted content changed; it returns or raises
\* (database.py lines 184-212)
PipeUpdate(p) ==
    /\ ppc[p] = "update"
    /\ \/ PipeRaise(p, "update")
       \/ ppc' = [ppc EXCEPT ![p] = "handoff"] /\ UNCHANGED p_exc
    /\ UNCHANGED <<batch, message_data, p_user_id, subscription_status,
                   is_pilot, skip_n8n_batch, media_url, notified, p_call,
                   error_job, inserted>>

\* line 372: if not from_me and not skip_n8n_batch and not is_pilot
HandoffIgnoresFromMe(fm, skip, pilot) == ~skip /\ ~pilot

HandoffIgnoresPilot(fm, skip, pilot) == ~fm /\ ~skip

Handoff(fm, skip, pilot) == ~fm /\ ~skip /\ ~pilot

\* lines 373-375: add_message_to_batch(chat_id, final_content, user_id) is
\* entered: its INCR is executed or raises
PipeHandoff(p) ==
    /\ ppc[p] = "handoff"
    /\ Handoff(message_data[p].from_me, skip_n8n_batch[p], is_pilot[p])
    /\ \E i \in Calls :
          /\ \/ AddIncr(i, PipeConv, p_user_id[p])
             \/ AddIncrFail(i, PipeConv, p_user_id[p])
          /\ p_call' = [p_call EXCEPT ![p] = i]
    /\ ppc' = [ppc EXCEPT ![p] = "in_add"]
    /\ UNCHANGED <<message_data, p_user_id, subscription_status, is_pilot,
                   skip_n8n_batch, media_url, notified, p_exc, error_job, inserted>>

\* line 372: the condition is false and the hand-off is skipped
PipeSkip(p) ==
    /\ ppc[p] = "handoff"
    /\ ~Handoff(message_data[p].from_me, skip_n8n_batch[p], is_pilot[p])
    /\ ppc' = [ppc EXCEPT ![p] = "error_job"]
    /\ UNCHANGED <<batch, message_data, p_user_id, subscription_status,
                   is_pilot, skip_n8n_batch, media_url, notified, p_call,
                   p_exc, error_job, inserted>>

\* lines 376-377: except Exception as e: logger.error(...)
HandoffExceptReraises(outcome) ==
    IF outcome = "raised" THEN "raise" ELSE "error_job"

HandoffExcept(outcome) == "error_job"

\* lines 375-377: add_message_to_batch has returned or raised
PipeAddReturn(p) ==
    /\ ppc[p] = "in_add"
    /\ apc[p_call[p]] \in {"done", "raised"}
    /\ LET outcome == IF apc[p_call[p]] = "done" THEN "returned" ELSE "raised"
       IN  IF HandoffExcept(outcome) = "raise"
           THEN PipeRaise(p, "add")
           ELSE /\ ppc' = [ppc EXCEPT ![p] = HandoffExcept(outcome)]
                /\ UNCHANGED p_exc
    /\ UNCHANGED <<batch, message_data, p_user_id, subscription_status,
                   is_pilot, skip_n8n_batch, media_url, notified, p_call,
                   error_job, inserted>>

\* lines 381-387: create_processing_job for a media message without media
\* url (it swallows its own exceptions, database.py lines 218-256); the run
\* returns
PipeErrorJob(p) ==
    /\ ppc[p] = "error_job"
    /\ error_job' = [error_job EXCEPT ![p] =
            message_data[p].type \in MediaTypes /\ ~media_url[p]]
    /\ ppc' = [ppc EXCEPT ![p] = "done"]
    /\ UNCHANGED <<batch, message_data, p_user_id, subscription_status,
                   is_pilot, skip_n8n_batch, media_url, notified, p_call,
                   p_exc, inserted>>

\* The pipeline runs and the add_message_to_batch calls they make, with the
\* failures of those calls.  The runs happen within the 60 s delay of the
\* jobs they enqueue, so no job is due yet: the jobs are covered by Spec
\* and SpecFault.
NextPipe ==
    \/ \E p \in Calls, m \in Messages : PipeStart(p, m)
    \/ \E p \in Calls : PipeLookup(p)
    \/ \E p \in Calls : PipeReject(p)
    \/ \E p \in Calls : PipeSubscription(p)
    \/ \E p \in Calls : PipeInsert(p)
    \/ \E p \in Calls : PipeProcess(p)
    \/ \E p \in Calls : PipeNotifySize(p)
    \/ \E p \in Calls : PipeUpdate(p)
    \/ \E p \in Calls : PipeHandoff(p)
    \/ \E p \in Calls : PipeSkip(p)
    \/ \E p \in Calls : PipeAddReturn(p)
    \/ \E p \in Calls : PipeErrorJob(p)
    \/ \E i \in Calls : AddSetUser(i)
    \/ \E i \in Calls : AddGetJob(i)
    \/ \E i \in Calls : AddFetch(i)
    \/ \E i \in Calls : AddCancel(i)
    \/ \E i \in Calls : AddEnqueue(i)
    \/ \E i \in Calls : AddSetJob(i)
    \/ \E i \in Calls : AddFail(i)

SpecPipe == Init /\ [][NextPipe]_vars

TypeOK ==
    /\ \A c \in Convs : kvUser[c] \in {None, "u1", "u2"}
    /\ \A c \in Convs : kvJob[c] \in {NoJob} \cup Calls
    /\ \A i \in Calls : Len(forwarded[i]) <= 1 /\ Len(http[i]) <= StopAfterAttempt

\* ---------------------------------------------------- derived quantities
\* calls made on conversation c (their increment has been executed)
CallsOn(c) == {i \in Calls : chat_id[i] = c /\ apc[i] # "idle"}
\* calls on c that have returned
DoneOn(c) == {i \in CallsOn(c) : apc[i] = "done"}
\* flush jobs of c that are scheduled and neither cancelled nor fired
Outstanding(c) == {i \in Calls : chat_id[i] = c /\ Pending(i)}
\* no flush job of c has been taken by a worker yet
NoFlushStarted(c) ==
    \A i \in Calls : chat_id[i] = c => status[i] \notin {"started", "finished", "failed"}
\* every call made on c has returned and every job of c has run or is cancelled
Quiescent(c) ==
    \A i \in Calls : chat_id[i] = c =>
        apc[i] = "done" /\ status[i] \in {"finished", "canceled"}
\* job i ran with no call and no other job of its conversation alongside
Isolated(i) == ~addDuring[i] /\ ~flushDuring[i]

RECURSIVE SumCounts(_)
SumCounts(payloads) ==
    IF Len(payloads) = 0 THEN 0
    ELSE Head(payloads).batched_message_count + SumCounts(Tail(payloads))

RECURSIVE ForwardedUpTo(_, _)
ForwardedUpTo(c, n) ==
    IF n = 0 THEN 0
    ELSE ForwardedUpTo(c, n - 1)
         + (IF chat_id[n] = c THEN SumCounts(forwarded[n]) ELSE 0)

\* sum of batched_message_count over all forwards made for conversation c
ForwardedTotal(c) == ForwardedUpTo(c, MaxCalls)

LastOf(S) == CHOOSE i \in S : \A j \in S : j <= i

\* ------------------------------------------------------------------ claims
\* C1 (as claimed): once every call made on a conversation has returned and
\* every flush job scheduled for it has run or was cancelled, the forwards
\* made for it report at least as many messages as calls were completed.
C1_NoCountLost ==
    \A c \in Convs :
        Quiescent(c) => ForwardedTotal(c) >= Cardinality(DoneOn(c))

\* C2 (as claimed): the forwards made for a conversation never report more
\* messages than add_message_to_batch calls were made for it.
C2_NoDuplicateForward ==
    \A c \in Convs : ForwardedTotal(c) <= Cardinality(CallsOn(c))

\* C3: as long as no flush job of the conversation has started, the stored
\* counter is the decimal text of the number of add_message_to_batch calls
\* made on it (absent before the first call, 1 after it), however the calls
\* interleave; in particular it is N once N calls have returned.
C3_CountEqualsCalls ==
    \A c \in Convs :
        NoFlushStarted(c) =>
            kvCount[c] = (IF CallsOn(c) = {} THEN NoCount
                          ELSE IntToDigits(Cardinality(CallsOn(c))))

C3_Witness ==
    \E c \in Convs :
        /\ overlapped[c] /\ NoFlushStarted(c)
        /\ Cardinality(DoneOn(c)) >= 2 /\ DoneOn(c) = CallsOn(c)
        /\ DigitsToInt(kvCount[c]) = Cardinality(DoneOn(c))

\* C4: when a flush job that found the counter present returns, and no
\* add_message_to_batch call of its conversation was running at any time
\* while the job ran, the three keys of the conversation are absent.
C4_FlushClearsKeys ==
    [][\A i \in Calls :
        (/\ status[i] = "started" /\ status'[i] \in {"finished", "failed"}
         /\ message_count[i] > 0
         /\ ~addDuring[i])
        => /\ kvCount'[chat_id[i]] = NoCount
           /\ kvUser'[chat_id[i]] = None
           /\ kvJob'[chat_id[i]] = NoJob]_vars

C4_Witness ==
    \E i \in Calls :
        /\ status[i] = "finished" /\ message_count[i] > 0 /\ ~addDuring[i]
        /\ Len(forwarded[i]) = 1
        /\ kvCount[chat_id[i]] = NoCount
        /\ kvUser[chat_id[i]] = None
        /\ kvJob[chat_id[i]] = NoJob

\* C5: a flush job that finds the counter absent returns at once without
\* raising: that step changes no key of the store (a user or job key that
\* is present stays), and the job never called the forwarder.
C5_EmptyFlushIsNoop ==
    [][\A i \in Calls :
        (/\ status[i] = "started" /\ fpc[i] = "get_count"
         /\ kvCount[chat_id[i]] = NoCount
         /\ fpc'[i] # fpc[i])
        => /\ status'[i] = "finished" /\ result'[i] = "returned"
           /\ kvCount' = kvCount /\ kvUser' = kvUser /\ kvJob' = kvJob
           /\ forwarded'[i] = <<>> /\ http'[i] = <<>>]_vars

C5_Witness ==
    \E i \in Calls :
        /\ status[i] = "finished" /\ result[i] = "returned"
        /\ message_count[i] = 0 /\ forwarded[i] = <<>>
        /\ kvCount[chat_id[i]] = NoCount
        /\ kvUser[chat_id[i]] # None
        /\ kvJob[chat_id[i]] # NoJob

\* C6: a stored user id is never replaced by absence by add_message_to_batch:
\* a step that changes a present n8n_user key is either the delete of a
\* flush job or the set of a call whose user_id argument is a concrete
\* value, which becomes the stored one; and a flush job that ran alone
\* forwards the user id that was stored when it started.
C6_UserRetained ==
    [][/\ \A c \in Convs :
            (kvUser[c] # None /\ kvUser'[c] # kvUser[c]) =>
                \/ \E i \in Calls :
                      /\ chat_id[i] = c
                      /\ fpc[i] = "del_user" /\ fpc'[i] = "del_job"
                      /\ kvUser'[c] = None
                \/ \E i \in Calls :
                      /\ chat_id[i] = c
                      /\ apc[i] = "set_user" /\ apc'[i] = "get_job"
                      /\ Truthy(user_id[i])
                      /\ kvUser'[c] = user_id[i]
       /\ \A i \in Calls :
            (Isolated(i) /\ forwarded[i] = <<>> /\ forwarded'[i] # <<>>) =>
                forwarded'[i][1].user_id = startKV[i][2]]_vars

\* a call without user id has passed its set_user step after an earlier,
\* non-overlapping call stored u, and u is still stored
C6_Witness ==
    \E c \in Convs : \E i, j \in CallsOn(c) :
        /\ j < i /\ ~overlapped[c] /\ NoFlushStarted(c)
        /\ apc[i] # "set_user" /\ ~Truthy(user_id[i])
        /\ Truthy(user_id[j]) /\ kvUser[c] = user_id[j]

AllAttemptsRaised(i) ==
    /\ Len(http[i]) >= 1
    /\ \A k \in 1..Len(http[i]) : ~http[i][k]
    /\ fpc[i] # "retry"

C8_ForwardFailureAbsorbed ==
    \A i \in Calls :
        AllAttemptsRaised(i) =>
            /\ sf[i] = "returned"
            /\ status[i] # "failed" /\ result[i] # "raised"
            /\ fpc[i] \in {"del_count", "del_user", "del_job", "done"}
            /\ fpc[i] = "done" => (status[i] = "finished" /\ result[i] = "returned")

C8_Witness ==
    \E i \in Calls :
        /\ http[i] = <<FALSE, FALSE>> /\ sf[i] = "returned"
        /\ status[i] = "finished" /\ result[i] = "returned"

\* C9: after k >= 2 add_message_to_batch calls on a conversation that did
\* not overlap each other, all returned, with no flush job of it started,
\* the job of the last call is pending, the stored job id is its id, and
\* the job of every earlier call has been cancelled.
SequentialCallsOnly(c) ==
    /\ ~overlapped[c] /\ NoFlushStarted(c)
    /\ DoneOn(c) = CallsOn(c) /\ Cardinality(DoneOn(c)) >= 2

C9_RescheduleCancelsPrior ==
    \A c \in Convs :
        SequentialCallsOnly(c) =>
            /\ Pending(LastOf(DoneOn(c)))
            /\ kvJob[c] = LastOf(DoneOn(c))
            /\ \A j \in DoneOn(c) \ {LastOf(DoneOn(c))} : status[j] = "canceled"
            /\ Cardinality(Outstanding(c)) = 1

C9_Witness ==
    \E c \in Convs :
        /\ SequentialCallsOnly(c)
        /\ status[LastOf(DoneOn(c))] = "scheduled"
        /\ \E j \in DoneOn(c) : status[j] = "canceled"

NoCallNextToFlush(c) == \A i \in Calls : chat_id[i] = c => ~addDuring[i]

C11_StaleNeverRuns ==
    \A i \in Calls : stale[i] => fpc[i] = "-"

\* C12: when the last allowed HTTP attempt of a job has raised like every
\* one before it, the job goes on to redis_conn.delete(count_key), and each
\* of its next three steps deletes one key: the counter, the user id, the
\* job id, in that order, exactly as after a successful forward; if no
\* add_message_to_batch call ran alongside the job, all three keys are
\* absent when it ends.
ForwardFailedTerminally(i) ==
    /\ Len(http[i]) = StopAfterAttempt
    /\ \A k \in 1..Len(http[i]) : ~http[i][k]

C12_CleanupAfterFailedForward ==
    [][\A i \in Calls :
        /\ (/\ fpc[i] \in {"forward", "retry"}
            /\ Len(http'[i]) = StopAfterAttempt
            /\ \A k \in 1..StopAfterAttempt : ~http'[i][k])
           => fpc'[i] = "del_count"
        /\ (ForwardFailedTerminally(i) /\ fpc'[i] # fpc[i]) =>
            /\ fpc[i] = "del_count" =>
                  (kvCount'[chat_id[i]] = NoCount /\ fpc'[i] = "del_user")
            /\ fpc[i] = "del_user" =>
                  (kvUser'[chat_id[i]] = None /\ fpc'[i] = "del_job")
            /\ fpc[i] = "del_job" =>
                  /\ kvJob'[chat_id[i]] = NoJob
                  /\ fpc'[i] = "done" /\ status'[i] = "finished"
                  /\ ~addDuring[i] =>
                        (kvCount'[chat_id[i]] = NoCount
                         /\ kvUser'[chat_id[i]] = None)]_vars

\* a job whose two attempts both raised has ended, and the keys that were
\* present when it started are gone
C12_Witness ==
    \E i \in Calls :
        /\ ForwardFailedTerminally(i) /\ fpc[i] = "done"
        /\ startKV[i][1] # NoCount /\ startKV[i][2] # None
        /\ startJob[i] # NoJob
        /\ kvCount[chat_id[i]] = NoCount
        /\ kvUser[chat_id[i]] = None
        /\ kvJob[chat_id[i]] = NoJob

\* C13 (as claimed): when a flush job that ran with no call and no other
\* job of its conversation alongside ends on an exception, the counter, the
\* user id and the job id of the conversation are what they were when the
\* job started.
C13_FailedFlushKeepsState ==
    [][\A i \in Calls :
        (flush_exc[i] = "none" /\ flush_exc'[i] # "none" /\ Isolated(i)) =>
            /\ kvCount'[chat_id[i]] = startKV[i][1]
            /\ kvUser'[chat_id[i]] = startKV[i][2]
            /\ kvJob'[chat_id[i]] = startJob[i]]_vars

C15_FailureReraised ==
    \A i \in Calls :
        apc[i] = "done" =>
            \A k \in 1..Len(add_exc[i]) :
                add_exc[i][k] \notin
                    {"get_job", "fetch", "cancel", "enqueue", "set_job"}

\* C15 (amended): an exception of redis_conn.get(job_id_key), of enqueue_in
\* or of redis_conn.set(job_id_key, ...) (like one of incr or of the set of
\* the user id) ends the call by re-raising; an exception of Job.fetch,
\* get_status or cancel is caught inside the call, which goes on to
\* enqueue_in; and a call returns normally only after it has enqueued its
\* job and stored that job's id.
C15_AddFailureHandling ==
    [][\A i \in Calls :
        /\ add_exc'[i] # add_exc[i] =>
              LET at == add_exc'[i][Len(add_exc'[i])]
              IN  /\ at \in {"fetch", "cancel"} => apc'[i] = "enqueue"
                  /\ at \in {"incr", "set_user", "get_job", "enqueue", "set_job"}
                        => apc'[i] = "raised"
        /\ (apc[i] # "done" /\ apc'[i] = "done") =>
              /\ status'[i] # "none"
              /\ kvJob'[chat_id[i]] = i]_vars

\* the cancel of the previous job raised; the call has returned normally
\* with its own job enqueued and stored, and the previous job still waits
C15_Witness ==
    \E i \in Calls :
        /\ add_exc[i] = <<"cancel">> /\ apc[i] = "done"
        /\ kvJob[chat_id[i]] = i /\ Pending(i)
        /\ existing_job_id[i] # NoJob /\ Pending(existing_job_id[i])

\* ------------------------------------------------- claims on the pipeline
\* the run has left the content and media branch without raising there
PastProcess(p) ==
    ppc[p] \in {"notify_size", "update", "handoff", "in_add", "error_job", "done"}
    /\ p_exc[p] \in {"none", "update"}
    /\ p_user_id[p] # None

Returned(p) == ppc[p] = "done" /\ p_exc[p] = "none"

\* C16: a run that handles a message with from_me = true never enters
\* add_message_to_batch, and no step of that run changes the counter, the
\* user id or the job id of any conversation.
C16_AgentMessageNeverBatched ==
    [][\A p \in Calls :
        (message_data'[p].from_me /\ ppc'[p] # "idle") =>
            /\ p_call'[p] = 0
            /\ ppc'[p] # ppc[p] =>
                  (kvCount' = kvCount /\ kvUser' = kvUser /\ kvJob' = kvJob)]_vars

\* an agent message of a known, non-pilot user, not oversized, has been
\* handled to the end while the conversation holds a batch
C16_Witness ==
    \E p \in Calls :
        /\ message_data[p].from_me /\ Returned(p)
        /\ p_user_id[p] = "u1" /\ ~is_pilot[p] /\ ~skip_n8n_batch[p]
        /\ p_call[p] = 0
        /\ kvCount[PipeConv] = IntToDigits(1) /\ kvJob[PipeConv] # NoJob

C18_PilotNeverBatched ==
    \A p \in Calls :
        /\ is_pilot[p] <=> subscription_status[p] = "pilot"
        /\ subscription_status[p] = "pilot" =>
              (p_call[p] = 0 /\ ppc[p] # "in_add")

\* user messages of a pilot account, one text and one image within the
\* limit, have been handled to the end without a call
C18_Witness ==
    /\ \A p \in Calls :
          /\ subscription_status[p] = "pilot" /\ Returned(p)
          /\ ~message_data[p].from_me /\ ~skip_n8n_batch[p]
          /\ p_call[p] = 0
    /\ \E p, q \in Calls :
          message_data[p].type = "text" /\ message_data[q].type = "image"

\* C19: when the add_message_to_batch call of a run has raised, the run
\* catches the exception: it goes on to the error-job step, calls
\* create_processing_job for a media message without media url, and returns
\* without raising.
C19_AddExceptionCaught ==
    \A p \in Calls :
        (p_call[p] # 0 /\ apc[p_call[p]] = "raised" /\ ppc[p] # "in_add") =>
            /\ ppc[p] \in {"error_job", "done"}
            /\ p_exc[p] = "none"
            /\ ppc[p] = "done" =>
                  (error_job[p] <=>
                      (message_data[p].type \in MediaTypes /\ ~media_url[p]))

\* the enqueue of the call of a run raised; the run has created the error
\* job of its failed media and returned
C19_Witness ==
    \E p \in Calls :
        /\ p_call[p] # 0 /\ apc[p_call[p]] = "raised"
        /\ add_exc[p_call[p]] = <<"enqueue">>
        /\ Returned(p) /\ error_job[p]

\* C20 (as claimed): a run that has returned for a user message that is not
\* oversized and not of a pilot account has made an add_message_to_batch
\* call with the user id its lookup resolved, also when that is None.
C20_AlwaysBatched ==
    \A p \in Calls :
        (/\ Returned(p)
         /\ ~message_data[p].from_me /\ ~skip_n8n_batch[p] /\ ~is_pilot[p])
        => (p_call[p] # 0 /\ user_id[p_call[p]] = p_user_id[p])

\* C20 (amended): a run for a user message that is not oversized and not of
\* a pilot account, whose lookup resolved a user id and that has come past
\* the hand-off, has made exactly one add_message_to_batch call, with the
\* message's conversation and that user id; every call belongs to one run;
\* and a run whose lookup resolved no user id makes no call, so that no
\* call is made with an absent user id.
C20_BatchedOnceWithKnownUser ==
    /\ \A p \in Calls :
          /\ (/\ ppc[p] \in {"in_add", "error_job", "done"}
              /\ p_exc[p] = "none" /\ p_user_id[p] # None
              /\ ~message_data[p].from_me /\ ~skip_n8n_batch[p] /\ ~is_pilot[p])
             => /\ p_call[p] # 0
                /\ chat_id[p_call[p]] = PipeConv
                /\ user_id[p_call[p]] = p_user_id[p]
          /\ p_user_id[p] = None => p_call[p] = 0
          /\ p_call[p] # 0 => user_id[p_call[p]] # None
    /\ \A p, q \in Calls : (p # q /\ p_call[p] # 0) => p_call[p] # p_call[q]
    /\ Cardinality({i \in Calls : apc[i] # "idle"})
         = Cardinality({p \in Calls : p_call[p] # 0})

\* one run has batched the message of a known user and returned; another
\* has returned for a user message of an unknown sender without a call
C20_Witness ==
    \E p, q \in Calls :
        /\ Returned(p) /\ ~message_data[p].from_me
        /\ p_call[p] # 0 /\ apc[p_call[p]] = "done"
        /\ user_id[p_call[p]] = "u1" /\ kvUser[PipeConv] = "u1"
        /\ Returned(q) /\ ~message_data[q].from_me
        /\ p_user_id[q] = None /\ p_call[q] = 0

\* C21: a run for a user message whose lookup resolved no user id sends
\* the "number is not known" notice and returns: whether the notice was sent
\* or raised, the run does not raise, insert_message is never called for the
\* message, and the run never enters add_message_to_batch.
C21_UnknownSenderRejected ==
    \A p \in Calls :
        (/\ ppc[p] \notin {"idle", "lookup"} /\ p_exc[p] # "lookup"
         /\ ~message_data[p].from_me /\ p_user_id[p] = None)
        => /\ ppc[p] \in {"reject", "done"}
           /\ p_exc[p] = "none"
           /\ ~inserted[p] /\ p_call[p] = 0
           /\ ppc[p] = "done" <=> notified[p] # "none"

\* both outcomes of the notice: one rejected run whose notice was sent and
\* one whose notice raised have returned
C21_Witness ==
    \E p, q \in Calls :
        /\ ~message_data[p].from_me /\ p_user_id[p] = None
        /\ notified[p] = "sent" /\ Returned(p) /\ ~inserted[p] /\ p_call[p] = 0
        /\ ~message_data[q].from_me /\ p_user_id[q] = None
        /\ notified[q] = "raised" /\ Returned(q) /\ ~inserted[q] /\ p_call[q] = 0

\* C27: a run enters add_message_to_batch only after insert_message has
\* returned for its message: every run that has made a call has the message
\* inserted, a run is at the hand-off or beyond only with the message
\* inserted, and a run whose insert_message raised has ended by re-raising
\* without a call.
C27_AddOnlyAfterInsert ==
    \A p \in Calls :
        /\ p_call[p] # 0 => inserted[p]
        /\ ppc[p] \in {"handoff", "in_add", "error_job"} => inserted[p]
        /\ p_exc[p] = "insert" =>
              (ppc[p] = "done" /\ ~inserted[p] /\ p_call[p] = 0)
        /\ (ppc[p] \in {"process", "notify_size", "update"}) => inserted[p]

\* one run has batched its inserted message; the insert of another run's
\* user message, otherwise fit for batching, raised and that run ended
\* without a call
C27_Witness ==
    \E p, q \in Calls :
        /\ p_call[p] # 0 /\ inserted[p] /\ apc[p_call[p]] = "done"
        /\ p_exc[q] = "insert" /\ ppc[q] = "done" /\ p_call[q] = 0
        /\ ~message_data[q].from_me /\ p_user_id[q] = "u1" /\ ~is_pilot[q]

C23_CancelIsBestEffort ==
    [][\A i \in Calls :
        /\ (/\ apc[i] = "fetch" /\ apc'[i] # "fetch"
            /\ \/ status[existing_job_id[i]] \notin {"queued", "scheduled"}
               \/ add_exc'[i] # add_exc[i])
           => (apc'[i] = "enqueue" /\ status' = status)
        /\ (status'[i] = "canceled" /\ status[i] # "canceled")
           => status[i] \in {"queued", "scheduled"}
        /\ (apc[i] = "set_job" /\ apc'[i] = "done")
           => (kvJob'[chat_id[i]] = i /\ status[i] # "none")]_vars

\* a call that found the id of a job already taken by a worker has returned
\* without any exception, with its own job waiting and stored
C23_Witness ==
    \E i \in Calls :
        /\ apc[i] = "done" /\ add_exc[i] = <<>>
        /\ existing_job_id[i] # NoJob
        /\ status[existing_job_id[i]] \in {"started", "finished"}
        /\ kvJob[chat_id[i]] = i /\ Pending(i)

\* C24 (as claimed): whenever no add_message_to_batch call of a conversation
\* is mid-execution, a stored job id is the id of the job enqueued last for
\* the conversation, and every job of the conversation that is still
\* waiting is the one the stored job id names.
NoCallRunning(c) == \A i \in Calls : chat_id[i] = c => ~InAdd(i)

C24_StoredJobIsLatest ==
    \A c \in Convs :
        NoCallRunning(c) =>
            /\ kvJob[c] # NoJob => kvJob[c] = last_enqueued[c]
            /\ \A i \in Outstanding(c) : kvJob[c] = i

\* C25 (as claimed): in every reachable state where no add_message_to_batch
\* call of a conversation is mid-execution, a count greater than 0 has a
\* flush job that is scheduled, queued or running.
HasCount(c) == kvCount[c] # NoCount /\ DigitsToInt(kvCount[c]) > 0
HasFlushJob(c) == \E i \in Calls : chat_id[i] = c /\ (Pending(i) \/ Running(i))

NoAbort(c) ==
    \A i \in Calls : chat_id[i] = c => apc[i] # "raised" /\ flush_exc[i] = "none"

ActsOn(i, c) ==
    /\ chat_id'[i] = c
    /\ apc'[i] # apc[i] \/ fpc'[i] # fpc[i] \/ status'[i] # status[i]

OthersUnchanged(c) ==
    \A d \in Convs \ {c} :
        /\ kvCount'[d] = kvCount[d]
        /\ kvUser'[d] = kvUser[d]
        /\ kvJob'[d] = kvJob[d]
        /\ \A j \in Calls : chat_id[j] = d => status'[j] = status[j]

C28_PartitionedByConversation ==
    [][\A i \in Calls : \A c \in Convs :
          ActsOn(i, c) =>
              /\ OthersUnchanged(c)
              /\ kvJob'[c] # NoJob => chat_id'[kvJob'[c]] = c
              /\ existing_job_id'[i] # NoJob =>
                    chat_id'[existing_job_id'[i]] = c]_vars

\* two conversations are in use: the flush of one has deleted its keys while
\* the other still holds its count, user id and waiting job
C28_Witness ==
    \E i, j \in Calls :
        /\ chat_id[i] = "c1" /\ chat_id[j] = "c2"
        /\ status[i] = "finished" /\ Len(forwarded[i]) = 1
        /\ kvCount["c1"] = NoCount /\ kvJob["c1"] = NoJob
        /\ kvCount["c2"] = IntToDigits(1) /\ kvUser["c2"] # None
        /\ kvJob["c2"] = j /\ Pending(j)

\* C29 (as claimed): without failures, once every add_message_to_batch call
\* made on a conversation has returned and every flush job scheduled for it
\* has run or was cancelled, the count, the user id and the job id of the
\* conversation are all absent.
C29_StateDestroyedAtRest ==
    \A c \in Convs :
        (CallsOn(c) # {} /\ Quiescent(c)) =>
            /\ kvCount[c] = NoCount
            /\ kvUser[c] = None
            /\ kvJob[c] = NoJob

\* C30: under fair scheduling and without failures, every
\* add_message_to_batch call that has returned is eventually followed by a
\* run of process_and_forward_batch for its conversation that started after
\* the call's increment, and the system reaches a state from which no flush
\* job is waiting or running.
C30_EveryCallIsFlushed ==
    /\ \A i \in Calls : (apc[i] = "done") ~> flushed_after[i]
    /\ <>[](\A i \in Calls : ~Pending(i) /\ ~Running(i))

\* the job of the first call was cancelled by the second call, whose job
\* has run; nothing is waiting
C30_Witness ==
    \E i, j \in Calls :
        /\ chat_id[i] = chat_id[j]
        /\ apc[i] = "done" /\ status[i] = "canceled" /\ flushed_after[i]
        /\ apc[j] = "done" /\ status[j] = "finished"
        /\ \A k \in Calls : ~Pending(k) /\ ~Running(k)

====
